---------------------------- MODULE Spec2Model ----------------------------
(***************************************************************************)
(* stillbecoming: the ritual state machine (RitualController), its blended *)
(* parameter vector, the seeded content generators of the sketch, the      *)
(* edition numbering (EditionManager, simpleHash), the live particle pool  *)
(* (ParticleSystem.update) and the export of the relic (handleExport,      *)
(* ExportManager.exportRelic).                                             *)
(*                                                                         *)
(* Units.  Time is counted in tenths of a second (0.8 s = 8).  Channel     *)
(* values are fixed-point numbers in millionths (0.05 = 50000); a product  *)
(* is rounded to the nearest millionth, as a float product is rounded to   *)
(* the nearest representable value.                                        *)
(***************************************************************************)
EXTENDS Integers, Sequences, FiniteSets, TLC

\* one unit of a channel value is 1 / Scale
Scale == 1000 * 1000

\* ---------------------------------------------------------------- bounds
\* update() calls in one run of Spec
MaxCalls == 10
\* update() calls in one run of LiveSpec
MaxLiveCalls == 340
\* listeners registered through onStateChange
MaxListeners == 2
\* convergence tolerance of the parameter blend, in units of 1 / Scale
Eps == 10

\* ------------------------------------------------------------- constants
\* duration: Infinity of the terminal state
Infinity == -1
\* const smoothing = 0.05, in percent
smoothing == 5

Channels ==
  {"cameraTiltX", "cameraTiltY", "cameraZoom", "zLiftStrength", "noiseAmp",
   "glitchRate", "geometryCompletion", "gridVisibility", "particleEnergy",
   "weatheringAmount"}

\* a parameter vector written in the order of the source's object literals
Vec(tx, ty, zoom, zl, na, gr, gc, gv, pe, wa) ==
  [cameraTiltX |-> tx, cameraTiltY |-> ty, cameraZoom |-> zoom,
   zLiftStrength |-> zl, noiseAmp |-> na, glitchRate |-> gr,
   geometryCompletion |-> gc, gridVisibility |-> gv,
   particleEnergy |-> pe, weatheringAmount |-> wa]

STATES ==
  [BOOT |->
     [duration |-> 8,
      targets |-> Vec(0, 0, 1000000, 0, 0, 0, 0, 0, 0, 0)],
   TITLE |->
     [duration |-> 22,
      targets |-> Vec(0, 0, 1000000, 0, 0, 0, 0, 0, 100000, 50000)],
   INVOKE_2D |->
     [duration |-> 30,
      targets |-> Vec(0, 0, 1000000, 0, 20000, 0, 150000, 0, 300000, 100000)],
   BLOOM_BUILD |->
     [duration |-> 100,
      targets |-> Vec(0, 0, 1000000, 0, 50000, 50000, 1000000, 0, 800000, 150000)],
   GRID_ASSERT |->
     [duration |-> 60,
      targets |-> Vec(0, 0, 1000000, 0, 80000, 100000, 1000000, 1000000, 900000, 200000)],
   BREACH_3D |->
     [duration |-> 30,
      targets |-> Vec(400000, 300000, 650000, 600000, 120000, 150000, 1000000, 1000000, 1000000, 250000)],
   DESTABILIZE |->
     [duration |-> 50,
      targets |-> Vec(500000, 400000, 550000, 1000000, 300000, 400000, 1000000, 700000, 1200000, 400000)],
   REASSEMBLE |->
     [duration |-> 50,
      targets |-> Vec(100000, 50000, 950000, 300000, 100000, 100000, 1000000, 900000, 600000, 300000)],
   CONSECRATE_2D |->
     [duration |-> 18,
      targets |-> Vec(0, 0, 1000000, 0, 20000, 0, 1000000, 1000000, 200000, 500000)],
   RELIC |->
     [duration |-> Infinity,
      targets |-> Vec(0, 0, 1000000, 0, 0, 0, 1000000, 1000000, 0, 600000)]]

STATE_SEQUENCE ==
  <<"BOOT", "TITLE", "INVOKE_2D", "BLOOM_BUILD", "GRID_ASSERT",
    "BREACH_3D", "DESTABILIZE", "REASSEMBLE", "CONSECRATE_2D", "RELIC">>

\* STATE_SEQUENCE[i] with the source's 0-based index
SeqAt(i) == STATE_SEQUENCE[i + 1]

\* the frame deltas (tenths of a second) a run of Spec may supply: a stalled
\* clock (0), a delta that lands exactly on BOOT's end after two frames (4),
\* deltas that overshoot a state's end (10, 50) and one longer than the
\* whole ritual (400)
DtMenus == {{0, 400}, {4, 400}, {10, 50}}
\* the listeners a caller may register: the sketch's own and one more
Listeners == {"sketch", "other"}
\* the frame deltas of a run of LiveSpec: every delta is positive
LiveDtMenus == {{4}, {10}, {50}, {400}}

VARIABLES
  currentStateIndex,       \* RitualController.currentStateIndex (0-based)
  currentStateName,        \* RitualController.currentStateName
  timeInState,             \* RitualController.timeInState
  globalTime,              \* RitualController.globalTime
  params,                  \* RitualController.params
  targets,                 \* RitualController.targets
  onStateChangeCallbacks,  \* RitualController.onStateChangeCallbacks
  ritualComplete,          \* RitualController.ritualComplete
  completionTimestamp,     \* <<>> for null, <<t>> for the Date taken at instant t
  now,                     \* wall clock: the number of frames begun so far
  dts,                     \* the frame deltas the host supplies in this run
  delivered,               \* listener calls made by the latest update call
  host,                    \* per session: the p5 instance's unseeded state
  session,                 \* per session: the seed manager and the systems
  edition,                 \* localStorage and the EditionManagers built on it
  pool,                    \* ParticleSystem.particles of the running sketch
  sketch,                  \* the sketch's closure variables, the UI and the
                           \* ExportManager
  audio                    \* the AudioManager, its fade timers and the
                           \* play() promises not yet settled

vars ==
  <<currentStateIndex, currentStateName, timeInState, globalTime, params,
    targets, onStateChangeCallbacks, ritualComplete, completionTimestamp,
    now, dts, delivered, host, session, edition, pool, sketch, audio>>

\* the variables the controller and the setup of the systems never touch
restVars == <<edition, pool, sketch, audio>>

ctlVars ==
  <<currentStateIndex, currentStateName, timeInState, globalTime, params,
    targets, ritualComplete, completionTimestamp>>

\* ------------------------------------------------------------ arithmetic
\* x / d rounded to the nearest integer (d > 0)
RoundDiv(x, d) == (2 * x + d) \div (2 * d)

Abs(x) == IF x < 0 THEN -x ELSE x

\* a lerp that goes past b by the fraction t
lerpPastTarget(a, b, t) == a + RoundDiv((b - a) * (100 + t), 100)

\* lerp with its first two arguments exchanged
lerpSwapped(a, b, t) == b + RoundDiv((a - b) * t, 100)

\* lerp(a, b, t) = a + (b - a) * t, with t in percent
lerp(a, b, t) == a + RoundDiv((b - a) * t, 100)

\* the comparison written > instead of >=
ReachedDurationStrict(t, duration) == duration # Infinity /\ t > duration

\* timeInState >= duration, where nothing reaches Infinity
ReachedDuration(t, duration) == duration # Infinity /\ t >= duration

\* --------------------------------------------------------- the controller
InitController ==
  /\ currentStateIndex = 0
  /\ currentStateName = SeqAt(0)
  /\ timeInState = 0
  /\ globalTime = 0
  /\ params = Vec(0, 0, 1000000, 0, 0, 0, 0, 0, 0, 0)
  /\ targets = STATES[SeqAt(0)].targets
  /\ onStateChangeCallbacks = <<>>
  /\ ritualComplete = FALSE
  /\ completionTimestamp = <<>>

\* onStateChange(callback)
onStateChange(callback) ==
  /\ Len(onStateChangeCallbacks) < MaxListeners
  /\ onStateChangeCallbacks' = Append(onStateChangeCallbacks, callback)
  /\ UNCHANGED <<ctlVars, now, dts, delivered, host, session, restVars>>

\* what a listener reads from the controller's getters when it is called
\* from _transitionToNextState(): the fields as the lines above the forEach
\* left them
Seen ==
  [stateName |-> currentStateName', stateIndex |-> currentStateIndex',
   isComplete |-> ritualComplete',
   completionTimestamp |-> completionTimestamp', targets |-> targets']

\* the callbacks called last-registered first
NotifyReversed(callbacks, name, index) ==
  [i \in 1..Len(callbacks) |->
     [listener |-> callbacks[Len(callbacks) + 1 - i], stateName |-> name,
      stateIndex |-> index, seen |-> Seen]]

\* the listeners called before the completion flag and the timestamp are
\* set
NotifyBeforeCompletion(callbacks, name, index) ==
  [i \in 1..Len(callbacks) |->
     [listener |-> callbacks[i], stateName |-> name, stateIndex |-> index,
      seen |-> [Seen EXCEPT !.isComplete = ritualComplete,
                            !.completionTimestamp = completionTimestamp]]]

\* the calls forEach makes: every registered callback, in list order, with
\* the state name and index current at the time of the call
Notify(callbacks, name, index) ==
  [i \in 1..Len(callbacks) |-> [listener |-> callbacks[i], stateName |-> name,
                                stateIndex |-> index, seen |-> Seen]]

\* a transition that carries the overshoot into the next state instead of
\* resetting the accumulated time to 0
TransitionCarryOvershoot ==
  LET index == currentStateIndex + 1
      name  == SeqAt(index)
      t     == timeInState + (globalTime' - globalTime)
  IN  /\ currentStateIndex' = index
      /\ currentStateName' = name
      /\ timeInState' = t - STATES[currentStateName].duration
      /\ targets' = STATES[name].targets
      /\ IF name = "RELIC"
           THEN /\ ritualComplete' = TRUE
                /\ completionTimestamp' = <<now'>>
           ELSE UNCHANGED <<ritualComplete, completionTimestamp>>
      /\ delivered' = [i \in 1..Len(onStateChangeCallbacks) |->
                         [listener |-> onStateChangeCallbacks[i],
                          stateName |-> name, stateIndex |-> index]]

\* _transitionToNextState(); new Date() reads the wall clock of this frame
TransitionToNextState ==
  LET index == currentStateIndex + 1
      name  == SeqAt(index)
  IN  /\ currentStateIndex' = index
      /\ currentStateName' = name
      /\ timeInState' = 0
      /\ targets' = STATES[name].targets
      /\ IF name = "RELIC"
           THEN /\ ritualComplete' = TRUE
                /\ completionTimestamp' = <<now'>>
           ELSE UNCHANGED <<ritualComplete, completionTimestamp>>
      /\ delivered' = Notify(onStateChangeCallbacks, name, index)

\* the last-state test off by one: the state before the last is never left
ShouldTransitionOffByOne(t) ==
  /\ ReachedDuration(t, STATES[currentStateName].duration)
  /\ currentStateIndex < Len(STATE_SEQUENCE) - 2

\* the test of update(): the accumulated time t has reached the current
\* state's duration and the current state is not the last one
ShouldTransition(t) ==
  /\ ReachedDuration(t, STATES[currentStateName].duration)
  /\ currentStateIndex < Len(STATE_SEQUENCE) - 1

\* the completion stamp taken on every frame spent in RELIC
StayInStateRestamp(t) ==
  /\ timeInState' = t
  /\ delivered' = <<>>
  /\ completionTimestamp' =
       IF currentStateName = "RELIC" THEN <<now'>> ELSE completionTimestamp
  /\ UNCHANGED <<currentStateIndex, currentStateName, targets, ritualComplete>>

\* update() when the test fails: only the accumulated time t is stored
StayInState(t) ==
  /\ timeInState' = t
  /\ delivered' = <<>>
  /\ UNCHANGED <<currentStateIndex, currentStateName, targets,
                 ritualComplete, completionTimestamp>>

\* the blend with the target and the value exchanged in the call of lerp
UpdateParametersSwapped(p, t) ==
  [key \in DOMAIN p |-> lerpSwapped(p[key], t[key], smoothing)]

\* the blend computed but not stored
UpdateParametersNotStored(p, t) == p

\* _updateParameters(): every channel moves toward the target by the fixed
\* smoothing factor (deltaTime and the eased progress are computed but unused)
UpdateParameters(p, t) ==
  [key \in DOMAIN p |-> lerp(p[key], t[key], smoothing)]

RECURSIVE CatchUp(_, _)
\* the state index and the time left over after crossing every state whose
\* duration the accumulated time t covers
CatchUp(index, t) ==
  IF /\ index < Len(STATE_SEQUENCE) - 1
     /\ ReachedDuration(t, STATES[SeqAt(index)].duration)
    THEN CatchUp(index + 1, t - STATES[SeqAt(index)].duration)
    ELSE <<index, t>>

\* an update that crosses several states in one call when deltaTime is long
updateCatchUp(deltaTime) ==
  LET to    == CatchUp(currentStateIndex, timeInState + deltaTime)
      index == to[1]
      name  == SeqAt(index)
  IN  /\ now' = now + 1
      /\ globalTime' = globalTime + deltaTime
      /\ currentStateIndex' = index
      /\ currentStateName' = name
      /\ timeInState' = to[2]
      /\ targets' = STATES[name].targets
      /\ IF name = "RELIC" /\ currentStateName # "RELIC"
           THEN /\ ritualComplete' = TRUE
                /\ completionTimestamp' = <<now'>>
           ELSE UNCHANGED <<ritualComplete, completionTimestamp>>
      /\ delivered' = IF index = currentStateIndex THEN <<>>
                      ELSE [i \in 1..Len(onStateChangeCallbacks) |->
                              [listener |-> onStateChangeCallbacks[i],
                               stateName |-> name, stateIndex |-> index]]
      /\ params' = [key \in DOMAIN params |->
                      lerp(params[key], targets'[key], smoothing)]
      /\ UNCHANGED <<onStateChangeCallbacks, dts, host, session, edition, audio>>

\* update(deltaTime)
update(deltaTime) ==
  /\ now' = now + 1
  /\ globalTime' = globalTime + deltaTime
  /\ IF ShouldTransition(timeInState + deltaTime)
       THEN TransitionToNextState
       ELSE StayInState(timeInState + deltaTime)
  /\ params' = UpdateParameters(params, targets')
  /\ UNCHANGED <<onStateChangeCallbacks, dts, host, session, edition, audio>>

\* getStateName()
getStateName == currentStateName
\* isComplete()
isComplete == ritualComplete
\* getCompletionTimestamp()
getCompletionTimestamp == completionTimestamp
\* the body of getStateProgress() for a controller in state name with t
\* accumulated: Math.min(t / duration, 1.0) as the fraction <<numerator,
\* denominator>>; t / Infinity is 0
StateProgress(name, t) ==
  IF STATES[name].duration = Infinity THEN <<0, 1>>
  ELSE IF t >= STATES[name].duration THEN <<1, 1>>
  ELSE <<t, STATES[name].duration>>

\* getStateProgress()
getStateProgress == StateProgress(currentStateName, timeInState)
\* getTimeInState()
getTimeInState == timeInState
\* getGlobalTime()
getGlobalTime == globalTime

RECURSIVE DurationSum(_, _, _, _, _)
\* the loop of getGlobalProgress from iteration i on, with the sums so far:
\* <<elapsedDuration, totalDuration>> at the loop's end
DurationSum(i, elapsedDuration, totalDuration, index, t) ==
  IF i >= Len(STATE_SEQUENCE) - 1 THEN <<elapsedDuration, totalDuration>>
  ELSE DurationSum(i + 1,
                   elapsedDuration
                     + (IF i < index THEN STATES[SeqAt(i)].duration
                        ELSE IF i = index THEN t ELSE 0),
                   totalDuration + STATES[SeqAt(i)].duration,
                   index, t)

\* the body of getGlobalProgress() for a controller in state name at index
\* with t accumulated: the fraction <<numerator, denominator>>
GlobalProgress(name, index, t) ==
  IF name = "RELIC" THEN <<1, 1>>
  ELSE DurationSum(0, 0, 0, index, t)

\* getGlobalProgress()
getGlobalProgress ==
  GlobalProgress(currentStateName, currentStateIndex, timeInState)

\* ------------------------------------------------- the seeded generators
\* Lengths, radii, angles and opacities are fixed-point numbers in units of
\* 1 / GenScale (0.15 = 1500).  A product of cosines, sines and powers that
\* the model cannot evaluate is kept as the term of its operands.
GenScale == 10 * 1000

\* the two sessions that are compared
Sessions == {1, 2}

\* p.TWO_PI of the p5 instance, in units of 1 / GenScale
TWO_PI == 62832

\* the generator state space of the seed manager: a linear congruential
\* generator, the state after a draw being the draw
RngModulus == 4096
RngMultiplier == 1229
RngIncrement == 1

\* the seeds and the values of the host's unseeded randomness
MaxSeed == 2
MaxAmbient == 1
Seeds == 0..MaxSeed
Ambient == 0..MaxAmbient

\* the generator state after one more draw
NextRng(rng) == (rng * RngMultiplier + RngIncrement) % RngModulus

RECURSIVE DrawsMap(_)
\* k draws in a row as one map rng |-> (m[1] * rng + m[2]) % RngModulus
DrawsMap(k) ==
  IF k = 0 THEN <<1, 0>>
  ELSE LET half == DrawsMap(k \div 2)
           twice == <<(half[1] * half[1]) % RngModulus,
                      (half[1] * half[2] + half[2]) % RngModulus>>
       IN  IF k % 2 = 0 THEN twice
           ELSE <<(twice[1] * RngMultiplier) % RngModulus,
                  (twice[2] * RngMultiplier + RngIncrement) % RngModulus>>

\* the generator state after k more draws
SkipRng(rng, k) ==
  LET m == DrawsMap(k) IN (m[1] * rng + m[2]) % RngModulus

\* seedManager.randRange(min, max), the draw that leaves the generator in
\* state rng: a value in [min, max)
randRange(rng, min, max) == min + ((max - min) * rng) \div RngModulus

\* Math.floor of a fixed-point value, as a whole number
Floor(x) == x \div GenScale

\* p.random(min, max) of the host, which the seed does not govern
AmbientRange(p, min, max) == min + ((max - min) * p.random) \div (MaxAmbient + 1)

\* ---- GeometrySystem
\* the circle pushed by iteration i of the inner loop of
\* _generateCircleSets: two draws
Circle(rng, i, numCircles, maxRadius, hasFill) ==
  LET r1 == NextRng(rng)
      r2 == NextRng(r1)
  IN  [radius |-> (maxRadius * (i + 1)) \div numCircles,
       strokeWeight |-> randRange(r1, 10, 40),
       hasFill |-> hasFill /\ 2 * i > numCircles,
       fillAlpha |-> randRange(r2, 1500, 3500)]

\* one iteration of the outer loop of _generateCircleSets: six draws, then
\* two for each circle
CircleSet(rng) ==
  LET r1 == NextRng(rng)
      r2 == NextRng(r1)
      r3 == NextRng(r2)
      r4 == NextRng(r3)
      r5 == NextRng(r4)
      r6 == NextRng(r5)
      maxRadius  == randRange(r3, 2500, 5000)
      numCircles == Floor(randRange(r4, 40000, 100000))
      hasFill    == randRange(r5, 0, 10000) > 3000
  IN  [rng |-> SkipRng(r6, numCircles * 2),
       set |-> [centerX |-> randRange(r1, -1500, 1500),
                centerY |-> randRange(r2, -1500, 1500),
                circles |-> [i \in 1..numCircles |->
                               Circle(SkipRng(r6, (i - 1) * 2), i - 1,
                                      numCircles, maxRadius, hasFill)],
                colorIndex |-> Floor(randRange(r6, 0, 30000))]]

RECURSIVE CircleSetLoop(_, _, _, _)
\* the outer loop of _generateCircleSets from set on
CircleSetLoop(rng, set, numSets, circleSets) ==
  IF set >= numSets THEN [rng |-> rng, circleSets |-> circleSets]
  ELSE CircleSetLoop(CircleSet(rng).rng, set + 1, numSets,
                     Append(circleSets, CircleSet(rng).set))

\* _generateCircleSets()
GenerateCircleSets(p, rng) ==
  LET r1 == NextRng(rng)
  IN  CircleSetLoop(r1, 0, Floor(randRange(r1, 20000, 50000)), <<>>)

\* the point i of a spiral: x and y are kept as the terms of the operands of
\* scaledRadius * cos(angle) + offsetX and scaledRadius * sin(angle) + offsetY
SpiralPoint(p, i, n, maxRadius, turns, offsetX, offsetY) ==
  [x |-> <<"cos", i, n, maxRadius, turns, p.TWO_PI, offsetX>>,
   y |-> <<"sin", i, n, maxRadius, turns, p.TWO_PI, offsetY>>,
   t |-> <<i, n>>]

\* const points = 150
points == 150

\* one iteration of the loop of _generateSpirals: five draws, the points,
\* then the draw of the stroke weight
Spiral(p, rng) ==
  LET r1 == NextRng(rng)
      r2 == NextRng(r1)
      r3 == NextRng(r2)
      r4 == NextRng(r3)
      r5 == NextRng(r4)
      r6 == NextRng(r5)
  IN  [points |-> [i \in 1..points |->
                     SpiralPoint(p, i - 1, points,
                                 randRange(r1, 3000, 5000),
                                 randRange(r2, 20000, 40000),
                                 randRange(r3, -1000, 1000),
                                 randRange(r4, -1000, 1000))],
       colorIndex |-> Floor(randRange(r5, 0, 30000)),
       strokeWeight |-> randRange(r6, 20, 60)]

\* _generateSpirals(): spiral s is drawn after the six draws of each spiral
\* before it
GenerateSpirals(p, rng) ==
  LET r1 == NextRng(rng)
      numSpirals == Floor(randRange(r1, 10000, 40000))
  IN  [rng |-> SkipRng(r1, numSpirals * 6),
       spirals |-> [s \in 1..numSpirals |-> Spiral(p, SkipRng(r1, (s - 1) * 6))]]

\* the guide pushed by iteration i of the loop of _generateRadialGuides:
\* two draws
RadialGuide(p, rng, i, numGuides) ==
  LET r1 == NextRng(rng)
      r2 == NextRng(r1)
  IN  [angle |-> (i * p.TWO_PI) \div numGuides + randRange(r1, -1000, 1000),
       length |-> randRange(r2, 3000, 6000)]

\* _generateRadialGuides()
GenerateRadialGuides(p, rng) ==
  LET r1 == NextRng(rng)
      numGuides == Floor(randRange(r1, 80000, 160000))
  IN  [rng |-> SkipRng(r1, numGuides * 2),
       radialGuides |-> [i \in 1..numGuides |->
                           RadialGuide(p, SkipRng(r1, (i - 1) * 2), i - 1,
                                       numGuides)]]

\* new GeometrySystem(p, seedManager)
GeometrySystem(p, rng) ==
  LET a == GenerateCircleSets(p, rng)
      b == GenerateSpirals(p, a.rng)
      c == GenerateRadialGuides(p, b.rng)
  IN  [rng |-> c.rng,
       system |-> [circleSets |-> a.circleSets, spirals |-> b.spirals,
                   radialGuides |-> c.radialGuides]]

\* ---- GridSystem
\* the cell pushed by one iteration of the loop of _generateFilledCells:
\* four draws
FilledCell(rng, gridSize) ==
  LET r1 == NextRng(rng)
      r2 == NextRng(r1)
      r3 == NextRng(r2)
      r4 == NextRng(r3)
  IN  [gridX |-> Floor(randRange(r1, 0, gridSize * GenScale)),
       gridY |-> Floor(randRange(r2, 0, gridSize * GenScale)),
       colorIndex |-> Floor(randRange(r3, 0, 30000)),
       alpha |-> randRange(r4, 1000, 2500)]

\* _generateFilledCells()
GenerateFilledCells(rng, gridSize) ==
  LET r1 == NextRng(rng)
      numFilledCells == Floor(randRange(r1, 50000, 150000))
  IN  [rng |-> SkipRng(r1, numFilledCells * 4),
       filledCells |-> [i \in 1..numFilledCells |->
                          FilledCell(SkipRng(r1, (i - 1) * 4), gridSize)]]

\* const fragmentCount = 6
fragmentCount == 6

\* the fragment pushed by one iteration of the loop of _generateFragments:
\* five draws
Fragment(rng, gridSize) ==
  LET r1 == NextRng(rng)
      r2 == NextRng(r1)
      r3 == NextRng(r2)
      r4 == NextRng(r3)
      r5 == NextRng(r4)
  IN  [gridX |-> Floor(randRange(r1, 0, gridSize * GenScale)),
       gridY |-> Floor(randRange(r2, 0, gridSize * GenScale)),
       zOffset |-> 0,
       drift |-> [x |-> randRange(r3, -200, 200),
                  y |-> randRange(r4, -200, 200),
                  z |-> randRange(r5, 1000, 3000)]]

\* _generateFragments()
GenerateFragments(rng, gridSize) ==
  [rng |-> SkipRng(rng, fragmentCount * 5),
   fragments |-> [i \in 1..fragmentCount |->
                    Fragment(SkipRng(rng, (i - 1) * 5), gridSize)]]

\* new GridSystem(p, seedManager)
GridSystem(p, rng) ==
  LET r1 == NextRng(rng)
      r2 == NextRng(r1)
      r3 == NextRng(r2)
      gridSize == Floor(randRange(r1, 160000, 240000))
      a == GenerateFilledCells(r3, gridSize)
      b == GenerateFragments(a.rng, gridSize)
  IN  [rng |-> b.rng,
       system |-> [gridSize |-> gridSize,
                   innerGridColor |-> Floor(randRange(r2, 0, 30000)),
                   outerGridColor |-> Floor(randRange(r3, 0, 30000)),
                   filledCells |-> a.filledCells,
                   fragments |-> b.fragments]]

\* ---- ParticleSystem
\* this.maxParticles = 120
maxParticles == 120

\* a particle that takes its velocity from the host's unseeded p.random
CreateParticleUnseeded(p, rng) ==
  LET r1 == NextRng(rng)
      r2 == NextRng(r1)
      r3 == NextRng(r2)
      r4 == NextRng(r3)
      r5 == NextRng(r4)
      r6 == NextRng(r5)
  IN  [rng |-> r6,
       particle |->
         [x |-> <<"cos", randRange(r2, 0, 4000), randRange(r1, 0, p.TWO_PI)>>,
          y |-> <<"sin", randRange(r2, 0, 4000), randRange(r1, 0, p.TWO_PI)>>,
          vx |-> AmbientRange(p, -10, 10),
          vy |-> AmbientRange(p, -10, 10),
          life |-> randRange(r5, 5000, 10000),
          size |-> randRange(r6, 8, 20),
          path |-> <<>>,
          active |-> FALSE]]

\* _createParticle(): six draws; x and y are kept as the terms of the
\* operands of radius * cos(angle) and radius * sin(angle)
CreateParticle(p, rng) ==
  LET r1 == NextRng(rng)
      r2 == NextRng(r1)
      r3 == NextRng(r2)
      r4 == NextRng(r3)
      r5 == NextRng(r4)
      r6 == NextRng(r5)
  IN  [rng |-> r6,
       particle |->
         [x |-> <<"cos", randRange(r2, 0, 4000), randRange(r1, 0, p.TWO_PI)>>,
          y |-> <<"sin", randRange(r2, 0, 4000), randRange(r1, 0, p.TWO_PI)>>,
          vx |-> randRange(r3, -10, 10),
          vy |-> randRange(r4, -10, 10),
          life |-> randRange(r5, 5000, 10000),
          size |-> randRange(r6, 8, 20),
          path |-> <<>>,
          active |-> FALSE]]

\* new ParticleSystem(p, seedManager): particle i is created after the
\* draws of the i particles before it
ParticleSystem(p, rng) ==
  [rng |-> SkipRng(rng, maxParticles * 6),
   system |->
     [particles |-> [i \in 1..maxParticles |->
                       CreateParticle(p, SkipRng(rng, (i - 1) * 6)).particle]]]

\* ---- WeatheringPass
\* the stain pushed by one iteration of the loop of _generateStains: five
\* draws
Stain(rng) ==
  LET r1 == NextRng(rng)
      r2 == NextRng(r1)
      r3 == NextRng(r2)
      r4 == NextRng(r3)
      r5 == NextRng(r4)
  IN  [x |-> randRange(r1, -5000, 5000),
       y |-> randRange(r2, -5000, 5000),
       size |-> randRange(r3, 1000, 3000),
       opacity |-> randRange(r4, 300, 800),
       colorIndex |-> Floor(randRange(r5, 0, 20000))]

\* _generateStains()
GenerateStains(rng) ==
  LET r1 == NextRng(rng)
      numStains == Floor(randRange(r1, 30000, 80000))
  IN  [rng |-> SkipRng(r1, numStains * 5),
       stains |-> [i \in 1..numStains |-> Stain(SkipRng(r1, (i - 1) * 5))]]

\* const count = 30
count == 30

\* the fleck pushed by one iteration of _generateGlitchFlecks: four draws
GlitchFleck(rng) ==
  LET r1 == NextRng(rng)
      r2 == NextRng(r1)
      r3 == NextRng(r2)
      r4 == NextRng(r3)
  IN  [x |-> randRange(r1, -5000, 5000),
       y |-> randRange(r2, -5000, 5000),
       size |-> randRange(r3, 5, 30),
       opacity |-> randRange(r4, 3000, 8000)]

\* _generateGlitchFlecks(): fleck i is drawn after the draws of the i
\* flecks before it
GenerateGlitchFlecks(rng) ==
  [rng |-> SkipRng(rng, count * 4),
   glitchFlecks |-> [i \in 1..count |-> GlitchFleck(SkipRng(rng, (i - 1) * 4))]]

\* new WeatheringPass(p, seedManager)
WeatheringPass(p, rng) ==
  LET a == GenerateStains(rng)
      b == GenerateGlitchFlecks(a.rng)
  IN  [rng |-> b.rng,
       system |-> [stains |-> a.stains, glitchFlecks |-> b.glitchFlecks]]

\* ---- p.setup
\* the systems of a session in the order p.setup constructs them
SetupOrder == <<"geometrySystem", "gridSystem", "particleSystem", "weatheringPass">>

\* the p5 instance handed to the systems of session s
P5(s) == [TWO_PI |-> TWO_PI, random |-> host[s]]

\* the constructor p.setup calls for the system named name
Construct(name, p, rng) ==
  CASE name = "geometrySystem" -> GeometrySystem(p, rng)
    [] name = "gridSystem"     -> GridSystem(p, rng)
    [] name = "particleSystem" -> ParticleSystem(p, rng)
    [] name = "weatheringPass" -> WeatheringPass(p, rng)

\* a session whose seed manager was seeded with seed and whose p.setup has
\* not constructed a system yet
FreshSession(seed) ==
  [seed |-> seed, rng |-> seed, built |-> 0, systems |-> <<>>]

\* p.setup of session s constructs its next system
SetupStep(s) ==
  /\ session[s].built < Len(SetupOrder)
  /\ \E made \in {Construct(SetupOrder[session[s].built + 1], P5(s),
                            session[s].rng)} :
       session' = [session EXCEPT ![s] =
                     [seed |-> @.seed, rng |-> made.rng, built |-> @.built + 1,
                      systems |-> Append(@.systems, made.system)]]
  /\ UNCHANGED <<ctlVars, onStateChangeCallbacks, now, dts, delivered, host,
               restVars>>

\* ============================================================ editions
\* Strings are sequences of UTF-16 code units (what charCodeAt returns).  A
\* number that may not fit a machine word is a pair <<hi, lo>> standing for
\* hi * Half + lo with 0 <= lo < Half; a negative number has hi < 0.

\* 2^16
Half == 256 * 256

\* the longest visitor token a store may hold when the page loads
MaxTokenLen == 3
\* the longest master seed string
MaxSeedLen == 2
\* the longest string handed to seedFromString
MaxIdentityLen == 5
\* EditionManagers constructed on one store, one per page load
MaxLoads == 2
\* calls of seedFromString on one string
MaxHashCalls == 2

\* the code units strings are drawn from: '@', 'H', 'Z', 'd' and U+0912
Alphabet == {64, 72, 90, 100, 2322}

\* the strings over Alphabet of length at most n
Strings(n) == UNION {[1..k -> Alphabet] : k \in 0..n}

\* ---- utils/hash.js
\* the number n >= 0 as a pair
Num(n) == <<n \div Half, n % Half>>

\* x | 0, x & x: the pair reduced to a signed 32-bit integer
ToInt32(x) == <<((x[1] + Half \div 2) % Half) - Half \div 2, x[2]>>

\* hash << 5
ShiftLeft5(hash) ==
  ToInt32(<<hash[1] * 32 + (hash[2] * 32) \div Half, (hash[2] * 32) % Half>>)

\* a - b
Minus(a, b) ==
  IF a[2] >= b[2] THEN <<a[1] - b[1], a[2] - b[2]>>
  ELSE <<a[1] - b[1] - 1, a[2] - b[2] + Half>>

\* a + char, for a code unit char
Plus(a, char) ==
  <<a[1] + (a[2] + char) \div Half, (a[2] + char) % Half>>

\* Math.abs left out: the hash is returned with its sign
MathAbsSkipped(x) == x

\* Math.abs(x)
MathAbs(x) ==
  IF x[1] >= 0 THEN x
  ELSE IF x[2] = 0 THEN <<-x[1], 0>>
  ELSE <<-x[1] - 1, Half - x[2]>>

\* the loop of simpleHash from index i on (0-based) with the hash so far
HashLoop(str, i, hash) ==
  LET loop[k \in 0..Len(str), h \in Int \X Int] ==
        IF k >= Len(str) THEN h
        ELSE loop[k + 1, ToInt32(Plus(Minus(ShiftLeft5(h), h), str[k + 1]))]
  IN  loop[i, hash]

\* simpleHash(str)
simpleHash(str) == MathAbs(HashLoop(str, 0, Num(0)))

\* seedFromString(str)
seedFromString(str) == simpleHash(str)

\* x % m for a pair x >= 0 and 0 < m <= Half, as a plain number
Mod(x, m) == ((x[1] % m) * (Half % m) + (x[2] % m)) % m

\* ---- EditionManager
\* this.cap = 100
cap == 100

\* String(n) for n >= 0: the decimal digits as code units
RECURSIVE StringOf(_)
StringOf(n) ==
  IF n < 10 THEN <<48 + n>> ELSE Append(StringOf(n \div 10), 48 + (n % 10))

\* str.padStart(3, '0')
PadStart3(str) ==
  IF Len(str) >= 3 THEN str ELSE [i \in 1..(3 - Len(str)) |-> 48] \o str

\* v.toString(16) for 0 <= v < 16
Hex(v) == IF v < 10 THEN 48 + v ELSE 87 + v

\* the template of _generateUUID, 'x' = 120, 'y' = 121, '-' = 45, '4' = 52
UuidTemplate ==
  [i \in 1..8 |-> 120] \o <<45>> \o [i \in 1..4 |-> 120] \o <<45, 52>>
    \o [i \in 1..3 |-> 120] \o <<45, 121>> \o [i \in 1..3 |-> 120] \o <<45>>
    \o [i \in 1..12 |-> 120]

\* the values Math.random() * 16 | 0 takes; one page load draws the same
\* value for every digit of its token
RandomDigits == 0..15

\* _generateUUID() when every Math.random() * 16 | 0 gives r
GenerateUUID(r) ==
  [i \in 1..Len(UuidTemplate) |->
     IF UuidTemplate[i] = 120 THEN Hex(r)
     ELSE IF UuidTemplate[i] = 121 THEN Hex(8 + (r % 4))
     ELSE UuidTemplate[i]]

\* !token for the item getItem returns: true of a missing item (<<>>) and
\* of the empty string
NoToken(store) == store = <<>> \/ store[1] = <<>>

\* a token that is generated when the store has none and never written
GetOrCreateVisitorTokenNoWrite(store, r) ==
  IF NoToken(store)
    THEN [token |-> GenerateUUID(r), store |-> store, wrote |-> FALSE]
    ELSE [token |-> store[1], store |-> store, wrote |-> FALSE]

\* _getOrCreateVisitorToken() on a store that holds <<>> (no item) or
\* <<token>>
GetOrCreateVisitorToken(store, r) ==
  IF NoToken(store)
    THEN [token |-> GenerateUUID(r), store |-> <<GenerateUUID(r)>>,
          wrote |-> TRUE]
    ELSE [token |-> store[1], store |-> store, wrote |-> FALSE]

\* an edition number that is the remainder itself
ComputeEditionNoOffset(visitorToken, masterSeed) ==
  Mod(simpleHash(visitorToken \o masterSeed), cap)

\* _computeEdition()
ComputeEdition(visitorToken, masterSeed) ==
  Mod(simpleHash(visitorToken \o masterSeed), cap) + 1

\* _formatEditionLabel(): "Edition ", the padded number, " of ", the cap
FormatEditionLabel(editionNumber) ==
  <<"Edition ", PadStart3(StringOf(editionNumber)), " of ", StringOf(cap)>>

\* getEditionForFilename()
getEditionForFilename(editionNumber) == PadStart3(StringOf(editionNumber))

\* the store and the managers after new EditionManager(masterSeed), when
\* every Math.random() * 16 | 0 of a generated token gives r
Loaded(ed, r) ==
  LET got == GetOrCreateVisitorToken(ed.store, r)
      editionNumber == ComputeEdition(got.token, ed.masterSeed)
  IN  [ed EXCEPT
         !.store = got.store,
         !.writes = @ + (IF got.wrote THEN 1 ELSE 0),
         !.loads = Append(@,
           [masterSeed |-> ed.masterSeed,
            visitorToken |-> got.token,
            wrote |-> got.wrote,
            hash |-> simpleHash(got.token \o ed.masterSeed),
            editionNumber |-> editionNumber,
            editionLabel |-> FormatEditionLabel(editionNumber)])]

\* new EditionManager(masterSeed): a page load on the store
NewEditionManager ==
  /\ Len(edition.loads) < MaxLoads
  /\ \E r \in (IF NoToken(edition.store) THEN RandomDigits ELSE {0}) :
       \E loaded \in {Loaded(edition, r)} : edition' = loaded
  /\ UNCHANGED <<ctlVars, onStateChangeCallbacks, now, dts, delivered, host,
                 session, pool, sketch, audio>>

\* a caller hashes the identity string once more
SeedFromStringCall ==
  /\ Len(edition.seeds) < MaxHashCalls
  /\ edition' = [edition EXCEPT
                   !.seeds = Append(@, seedFromString(edition.identity))]
  /\ UNCHANGED <<ctlVars, onStateChangeCallbacks, now, dts, delivered, host,
                 session, pool, sketch, audio>>

\* what a call of localStorage does in one page load: it works, getItem
\* throws (storage disabled, SecurityError), or setItem throws (quota)
StorageModes == {"available", "getItemThrows", "setItemThrows"}

\* new EditionManager(masterSeed) on a storage in the given mode: the
\* constructor has no try, so an exception of getItem (line 17) or of
\* setItem (line 22) leaves it at once and no manager exists
Constructed(ed, r, mode) ==
  IF mode = "getItemThrows"
    THEN [ed EXCEPT !.attempts = Append(@,
            [storage |-> mode, threwAt |-> "getItem", completed |-> FALSE,
             editionNumber |-> 0, editionLabel |-> <<>>])]
  ELSE IF mode = "setItemThrows" /\ NoToken(ed.store)
    THEN [ed EXCEPT !.attempts = Append(@,
            [storage |-> mode, threwAt |-> "setItem", completed |-> FALSE,
             editionNumber |-> 0, editionLabel |-> <<>>])]
  ELSE LET loaded == Loaded(ed, r)
           made == loaded.loads[Len(loaded.loads)]
       IN  [loaded EXCEPT !.attempts = Append(@,
              [storage |-> mode, threwAt |-> "nowhere", completed |-> TRUE,
               editionNumber |-> made.editionNumber,
               editionLabel |-> made.editionLabel])]

\* p.setup builds the edition manager on a storage in some mode
SetupEditionManager ==
  /\ Len(edition.attempts) < MaxLoads
  /\ \E mode \in StorageModes :
       \E r \in (IF NoToken(edition.store) /\ mode # "getItemThrows"
                  THEN RandomDigits ELSE {0}) :
         \E made \in {Constructed(edition, r, mode)} : edition' = made
  /\ UNCHANGED <<ctlVars, onStateChangeCallbacks, now, dts, delivered, host,
                 session, pool, sketch, audio>>

\* the store, master seed and identity string of a run that loads no page
IdleEdition ==
  [store |-> <<>>, masterSeed |-> <<>>, identity |-> <<>>, writes |-> 0,
   loads |-> <<>>, seeds |-> <<>>, attempts |-> <<>>]

\* ====================================================== particle pool
\* Positions, velocities and life of the live pool are fixed-point numbers
\* in millionths, like the channels.  Math.cos and Math.sin are Bhaskara's
\* rational approximation in thousandths; Math.sqrt is the integer square
\* root, taken in thousandths.

\* p.PI
PI == TWO_PI \div 2

\* update() calls of the particle system in one run of DrawSpec
MaxDrawCalls == 140

\* the frame deltas of a run of DrawSpec (tenths of a second)
DrawDtMenus == {{2}, {4}, {50}}

\* Math.sin(angle) in thousandths for an angle in 0..PI (units of 1 / GenScale)
SinHalfTurn(angle) ==
  LET a == angle \div 10
      q == a * (PI \div 10 - a)
  IN  (16000 * (q \div 100))
        \div ((5 * (PI \div 10) * (PI \div 10) - 4 * q) \div 100)

\* Math.sin(angle) in thousandths
Sin(angle) ==
  LET a == angle % TWO_PI
  IN  IF a <= PI THEN SinHalfTurn(a) ELSE -SinHalfTurn(a - PI)

\* Math.cos(angle) in thousandths
Cos(angle) == Sin(angle + PI \div 2)

RECURSIVE SqrtLoop(_, _, _)
\* the largest r in lo..hi with r * r <= n
SqrtLoop(n, lo, hi) ==
  IF lo >= hi THEN lo
  ELSE IF ((lo + hi + 1) \div 2) * ((lo + hi + 1) \div 2) <= n
    THEN SqrtLoop(n, (lo + hi + 1) \div 2, hi)
    ELSE SqrtLoop(n, lo, (lo + hi + 1) \div 2 - 1)

\* Math.sqrt(n), rounded down
Sqrt(n) == SqrtLoop(n, 0, 40000)

\* p.noise(x, y, z) in units of 1 / GenScale: a field fixed by the host's
\* noise seed
noise(p, x, y, z) ==
  ((RoundDiv(x, 1000) + RoundDiv(y, 1000) + z + p.random) * 2500) % GenScale

\* the value of radius * Math.cos(angle) or radius * Math.sin(angle) kept
\* by _createParticle, in millionths
Product(term) ==
  IF term[1] = "cos" THEN (term[2] * Cos(term[3])) \div 10
  ELSE (term[2] * Sin(term[3])) \div 10

\* a particle of the constructor with its fields as numbers in millionths
Particle(made) ==
  [x |-> Product(made.x), y |-> Product(made.y),
   vx |-> made.vx * 100, vy |-> made.vy * 100,
   life |-> made.life * 100, size |-> made.size * 100,
   path |-> made.path, active |-> made.active]

\* the four systems p.setup constructs from a seed manager seeded seed
RECURSIVE RunSetup(_, _)
RunSetup(p, built) ==
  IF built.built >= Len(SetupOrder) THEN built
  ELSE RunSetup(p,
         [seed |-> built.seed,
          rng |-> Construct(SetupOrder[built.built + 1], p, built.rng).rng,
          built |-> built.built + 1,
          systems |-> Append(built.systems,
                             Construct(SetupOrder[built.built + 1], p,
                                       built.rng).system)])

\* particleSystem.particles after p.setup with a seed manager seeded seed
SetupPool(p, seed) ==
  LET made == RunSetup(p, FreshSession(seed)).systems[3]
  IN  [i \in 1..Len(made.particles) |-> Particle(made.particles[i])]

\* const activeCount = Math.floor(energy * this.maxParticles)
ActiveCount(energy) == (energy * maxParticles) \div Scale

\* a trail that drops the position just pushed when it is full
StoreTrailDropNewest(path, x, y) ==
  IF Len(path) + 1 > 5 THEN path ELSE Append(path, [x |-> x, y |-> y])

\* p.path.push({ x: p.x, y: p.y }); if (p.path.length > 5) p.path.shift()
StoreTrail(path, x, y) ==
  IF Len(path) + 1 > 5
    THEN Tail(Append(path, [x |-> x, y |-> y]))
    ELSE Append(path, [x |-> x, y |-> y])

\* the boundary check of update: a position farther than maxDist = 0.6 from
\* the centre is put at half that distance on the opposite side
Wrap(x, y) ==
  LET xs == RoundDiv(x, 1000)
      ys == RoundDiv(y, 1000)
      dist == Sqrt(xs * xs + ys * ys)
  IN  IF xs * xs + ys * ys > 600 * 600
        THEN [x |-> -((300000 * xs) \div dist), y |-> -((300000 * ys) \div dist)]
        ELSE [x |-> x, y |-> y]

\* the velocity after the noise force and the damping
Steer(p, particle, x, y, energy, noiseAmp, millis) ==
  LET angle == (noise(p, x * 3, y * 3, millis) * p.TWO_PI * 2) \div GenScale
      kickX == IF noiseAmp > 0
                 THEN RoundDiv(Cos(angle) * 50 * (energy \div 1000), Scale)
                 ELSE 0
      kickY == IF noiseAmp > 0
                 THEN RoundDiv(Sin(angle) * 50 * (energy \div 1000), Scale)
                 ELSE 0
  IN  [vx |-> RoundDiv((particle.vx + kickX) * 98, 100),
       vy |-> RoundDiv((particle.vy + kickY) * 98, 100)]

\* the body of the loop of update for an active particle (deltaTime in
\* tenths of a second)
MoveParticle(p, particle, energy, noiseAmp, deltaTime, millis) ==
  LET x == particle.x + particle.vx * deltaTime * 6
      y == particle.y + particle.vy * deltaTime * 6
      v == Steer(p, particle, x, y, energy, noiseAmp, millis)
      at == Wrap(x, y)
      life == particle.life - deltaTime * 20000
  IN  [x |-> at.x, y |-> at.y, vx |-> v.vx, vy |-> v.vy,
       life |-> IF life <= 0 THEN Scale ELSE life,
       size |-> particle.size,
       path |-> StoreTrail(particle.path, at.x, at.y),
       active |-> TRUE]

\* an inactive particle that also loses its trail
DeactivateAndClear(particle) ==
  [particle EXCEPT !.active = FALSE, !.path = <<>>]

\* p.active = false; continue
Deactivate(particle) == [particle EXCEPT !.active = FALSE]

\* ParticleSystem.update(params, deltaTime) on the particles
UpdateParticles(p, particles, parameters, deltaTime, millis) ==
  [i \in 1..Len(particles) |->
     IF i - 1 < ActiveCount(parameters.particleEnergy)
       THEN MoveParticle(p, particles[i], parameters.particleEnergy,
                         parameters.noiseAmp, deltaTime, millis)
       ELSE Deactivate(particles[i])]

\* ============================================================== sketch
\* frames of one run of SketchSpec
MaxSketchCalls == 13
\* clicks on the download button in one run of SketchSpec
MaxExports == 2

\* the largest seed of a run of RenderSpec
MaxRenderSeed == 16
RenderSeeds == 0..MaxRenderSeed

\* the frame deltas of a run of SketchSpec (tenths of a second)
SketchDtMenus == {{50}, {400}}

\* formatTimestamp(date) of utils/time.js: the long date and time of the
\* instant
formatTimestamp(date) == <<"long", date>>

\* formatFilenameTimestamp(date) of utils/time.js: the compact form
formatFilenameTimestamp(date) == <<"compact", date>>

\* the sketch before p.setup has run its listener and with no export begun
IdleSketch ==
  [ritualTimestamp |-> <<>>, timestampFormatted |-> <<>>,
   timestampLabel |-> <<>>, downloadShown |-> FALSE,
   isExporting |-> FALSE, pc |-> "idle", call |-> <<>>, threw |-> FALSE,
   rendered |-> <<>>, saved |-> <<>>, calls |-> <<>>, scene |-> <<>>,
   created |-> 0, removed |-> 0]

\* a listener that also shows the download button, click handler attached,
\* when the timestamp appears in CONSECRATE_2D
handleStateChangeButtonEarly(sk, stateName, date, completion) ==
  LET stamp == IF completion # <<>> THEN completion[1] ELSE date
  IN  IF stateName = "CONSECRATE_2D" /\ sk.ritualTimestamp = <<>>
        THEN [sk EXCEPT !.ritualTimestamp = <<date>>,
                        !.timestampFormatted = <<formatTimestamp(date)>>,
                        !.timestampLabel = <<formatTimestamp(date)>>,
                        !.downloadShown = TRUE]
      ELSE IF stateName = "RELIC" /\ sk.ritualTimestamp = <<>>
        THEN [sk EXCEPT !.ritualTimestamp = <<stamp>>,
                        !.timestampFormatted = <<formatTimestamp(stamp)>>,
                        !.timestampLabel = <<formatTimestamp(stamp)>>,
                        !.downloadShown = TRUE]
      ELSE IF stateName = "RELIC"
        THEN [sk EXCEPT !.downloadShown = TRUE]
      ELSE sk

\* handleStateChange(stateName) run at instant date, when the controller's
\* getCompletionTimestamp() returns completion
handleStateChange(sk, stateName, date, completion) ==
  LET stamp == IF completion # <<>> THEN completion[1] ELSE date
  IN  IF stateName = "CONSECRATE_2D" /\ sk.ritualTimestamp = <<>>
        THEN [sk EXCEPT !.ritualTimestamp = <<date>>,
                        !.timestampFormatted = <<formatTimestamp(date)>>,
                        !.timestampLabel = <<formatTimestamp(date)>>]
      ELSE IF stateName = "RELIC" /\ sk.ritualTimestamp = <<>>
        THEN [sk EXCEPT !.ritualTimestamp = <<stamp>>,
                        !.timestampFormatted = <<formatTimestamp(stamp)>>,
                        !.timestampLabel = <<formatTimestamp(stamp)>>,
                        !.downloadShown = TRUE]
      ELSE IF stateName = "RELIC"
        THEN [sk EXCEPT !.downloadShown = TRUE]
      ELSE sk

\* the sketch after the listener calls of one update: the listener p.setup
\* registered runs handleStateChange, any other listener leaves the sketch
\* alone
AfterCalls(sk, calls, date, completion) ==
  IF \E i \in 1..Len(calls) : calls[i].listener = "sketch"
    THEN handleStateChange(sk, calls[1].stateName, date, completion)
    ELSE sk

\* the states in which WeatheringPass.render draws the pixelation overlay
pixelationStates == {"REASSEMBLE", "CONSECRATE_2D", "RELIC"}

\* WeatheringPass.render(params, unit, colors, ritualStateName): the layers
\* it draws; thresholds are in millionths
WeatheringRender(parameters, ritualStateName) ==
  LET amount == parameters.weatheringAmount
      glitchRate == parameters.glitchRate
  IN  IF amount <= 0
        THEN [ritualStateName |-> ritualStateName, stains |-> FALSE,
              pixelation |-> FALSE, grain |-> FALSE, glitchResidue |-> FALSE]
        ELSE [ritualStateName |-> ritualStateName,
              stains |-> amount > (2 * Scale) \div 10,
              pixelation |-> ritualStateName \in pixelationStates,
              grain |-> TRUE,
              glitchResidue |-> glitchRate > (2 * Scale) \div 10]

\* Math.ceil(a / b) for b > 0
CeilDiv(a, b) == -((-a) \div b)

\* p.map(n, start1, stop1, start2, stop2, true) on millionths: the linear
\* map, constrained to the target range
MapConstrained(n, start1, stop1, start2, stop2) ==
  LET newval == ((n - start1) * ((stop2 - start2) \div 1000))
                   \div ((stop1 - start1) \div 1000) + start2
  IN  IF newval < start2 THEN start2
      ELSE IF newval > stop2 THEN stop2
      ELSE newval

\* completion > 0.05, the test before _renderRadialGuides
ShowsGuides(completion) == completion > (5 * Scale) \div 100

\* completion > 0.1, the test before _renderSpirals
ShowsSpirals(completion) == completion > Scale \div 10

\* a test that lets the circle sets in as soon as anything is drawn
ShowsCirclesEarly(completion) == completion > 0

\* completion > 0.2, the test before _renderCircleSets
ShowsCircles(completion) == completion > (2 * Scale) \div 10

\* _renderRadialGuides: numGuidesToShow
RenderRadialGuides(system, completion) ==
  LET alpha == IF completion * 2 < Scale THEN completion * 2 ELSE Scale
  IN  (alpha * Len(system.radialGuides)) \div Scale

\* _renderSpirals: numPoints of each spiral
RenderSpirals(system, completion) ==
  [s \in 1..Len(system.spirals) |->
     (completion * Len(system.spirals[s].points)) \div Scale]

\* _renderCircleSets: circleCompletion and numCirclesToShow of each set
RenderCircleSets(system, completion) ==
  LET circleCompletion ==
        MapConstrained(completion, (2 * Scale) \div 10, Scale, 0, Scale)
  IN  [circleCompletion |-> circleCompletion,
       shown |-> [setIdx \in 1..Len(system.circleSets) |->
                    CeilDiv(circleCompletion
                              * Len(system.circleSets[setIdx].circles),
                            Scale)]]

\* GeometrySystem.render(params, unit, colors): the layers drawn and how
\* many of their descriptors are shown
GeometryRender(system, parameters) ==
  LET completion == parameters.geometryCompletion
      drawn == completion > 0
  IN  [completion |-> completion,
       guides |-> [drawn |-> drawn /\ ShowsGuides(completion),
                   shown |-> RenderRadialGuides(system, completion)],
       spirals |-> [drawn |-> drawn /\ ShowsSpirals(completion),
                    shown |-> RenderSpirals(system, completion)],
       circles |-> [drawn |-> drawn /\ ShowsCircles(completion),
                    shown |-> RenderCircleSets(system, completion)]]

\* isInner of line i: distFromCenter < centerThreshold, that is
\* |i - gridSize / 2| < gridSize * 0.3, both sides times 20
IsInner(gridSize, i) == 10 * Abs(2 * i - gridSize) < 6 * gridSize

\* the lines of one axis in the order they are drawn: for each, isInner
\* and the colour index handed to _getGridColor
GridLines(system) ==
  [k \in 1..(system.gridSize + 1) |->
     [isInner |-> IsInner(system.gridSize, k - 1),
      colorIndex |-> IF IsInner(system.gridSize, k - 1)
                       THEN system.innerGridColor
                       ELSE system.outerGridColor]]

\* GridSystem.render(params, unit, colors): the fragment offsets it
\* writes (in units) and the lines of the two axes
GridRender(system, parameters) ==
  IF parameters.gridVisibility <= 0
    THEN [drawn |-> FALSE, zOffsets |-> <<>>, vertical |-> <<>>,
          horizontal |-> <<>>]
    ELSE [drawn |-> TRUE,
          zOffsets |-> [f \in 1..Len(system.fragments) |->
                          parameters.zLiftStrength
                            * system.fragments[f].drift.z],
          vertical |-> GridLines(system),
          horizontal |-> GridLines(system)]

\* renderScene(params): the geometry, the grid and the weathering layer
\* of the systems p.setup built; weatheringPass.render(params, unit,
\* COLORS) is called with three arguments, so its ritualStateName is
\* undefined
renderScene(parameters) ==
  [geometry |-> GeometryRender(session[1].systems[1], parameters),
   grid |-> GridRender(session[1].systems[2], parameters),
   weathering |-> WeatheringRender(parameters, "undefined")]

\* p.draw: the controller is updated, its listeners run, then the particle
\* system is updated with the parameters read back from the controller and
\* the scene is rendered with them; no frame runs inside a call of
\* exportRelic
draw(deltaTime) ==
  /\ sketch.pc = "idle"
  /\ update(deltaTime)
  /\ \E read \in {params'} :
       /\ pool' = UpdateParticles(P5(1), pool, read, deltaTime, now')
       /\ \E calls \in {delivered'} :
            sketch' = [AfterCalls(sketch, calls, now', completionTimestamp')
                         EXCEPT !.scene = renderScene(read)]

\* a frame of a run that follows the particles
Draw == \E dt \in dts : now < MaxDrawCalls /\ draw(dt)

\* p.setup registers the sketch's listener on the controller
SetupListener ==
  /\ onStateChangeCallbacks = <<>>
  /\ onStateChange("sketch")

\* a frame of a run that follows the export; p.draw runs after p.setup
SketchFrame ==
  /\ onStateChangeCallbacks # <<>>
  /\ \E dt \in dts : now < MaxSketchCalls /\ draw(dt)

\* the params object handleExport builds
ExportParams ==
  [cameraTiltX |-> 0, cameraTiltY |-> 0, cameraZoom |-> Scale,
   zLiftStrength |-> 0, noiseAmp |-> params.noiseAmp, glitchRate |-> 0,
   geometryCompletion |-> Scale, gridVisibility |-> Scale,
   particleEnergy |-> 0, weatheringAmount |-> params.weatheringAmount]

\* what the caller of exportRelic gets back: the function has no return
\* statement and lets no exception out
Returned == [value |-> "undefined", raised |-> FALSE]

\* a finally block that leaves the flag set when the export threw
FinallyKeepFlagOnThrow(sk) ==
  [sk EXCEPT !.isExporting = sk.threw, !.pc = "idle", !.threw = FALSE,
             !.call = <<>>,
             !.calls = Append(@, [reported |-> Returned, failed |-> sk.threw,
                                  skipped |-> FALSE])]

\* the catch and finally blocks of exportRelic and the return to
\* handleExport, which logs 'Export complete.'
Finally(sk) ==
  [sk EXCEPT !.isExporting = FALSE, !.pc = "idle", !.threw = FALSE,
             !.call = <<>>,
             !.calls = Append(@, [reported |-> Returned, failed |-> sk.threw,
                                  skipped |-> FALSE])]

\* the variables no step of an export touches
coreVars ==
  <<ctlVars, onStateChangeCallbacks, now, dts, delivered, host, session,
    edition, pool, audio>>

\* a click on the download button: handleExport builds its params and calls
\* exportRelic, which returns at once when an export is in progress and
\* otherwise sets the flag
ClickDownload ==
  /\ sketch.downloadShown
  /\ sketch.pc = "idle"
  /\ Len(sketch.calls) < MaxExports
  /\ sketch' =
       IF sketch.isExporting
         THEN [sketch EXCEPT
                 !.calls = Append(@, [reported |-> Returned, failed |-> FALSE,
                                      skipped |-> TRUE])]
         ELSE [sketch EXCEPT
                 !.isExporting = TRUE,
                 !.pc = "createGraphics",
                 !.threw = FALSE,
                 !.call = [params |-> ExportParams,
                           editionNumber |->
                             getEditionForFilename(edition.loads[1].editionNumber),
                           timestamp |-> sketch.timestampFormatted]]
  /\ UNCHANGED coreVars

\* this.p.createGraphics(...) returns a buffer or throws; created counts
\* the buffers returned
CreateGraphics ==
  /\ sketch.pc = "createGraphics"
  /\ \E throws \in BOOLEAN :
       sketch' = IF throws THEN [sketch EXCEPT !.threw = TRUE, !.pc = "finally"]
                 ELSE [sketch EXCEPT !.pc = "render", !.created = @ + 1]
  /\ UNCHANGED coreVars

\* renderCallback(this.p, pg, scale): the four renderToGraphics calls with
\* the params of handleExport, then renderExportText; any of them may throw
RenderCallback ==
  /\ sketch.pc = "render"
  /\ \E throws \in BOOLEAN :
       sketch' =
         IF throws THEN [sketch EXCEPT !.threw = TRUE, !.pc = "finally"]
         ELSE [sketch EXCEPT
                 !.pc = "save",
                 !.rendered =
                   [params |-> sketch.call.params,
                    systems |-> session[1].systems,
                    editionLabel |-> edition.loads[1].editionLabel,
                    timestamp |-> sketch.timestampFormatted]]
  /\ UNCHANGED coreVars

\* the filename is built from new Date() and pg.save(filename) saves or
\* throws; pg.remove() follows a save and nothing else: removed counts
\* the buffers released
Save ==
  /\ sketch.pc = "save"
  /\ \E throws \in BOOLEAN :
       sketch' =
         IF throws THEN [sketch EXCEPT !.threw = TRUE, !.pc = "finally"]
         ELSE [sketch EXCEPT
                 !.pc = "finally",
                 !.removed = @ + 1,
                 !.saved = Append(@,
                   [edition |-> sketch.call.editionNumber,
                    timestamp |-> formatFilenameTimestamp(now),
                    image |-> sketch.rendered])]
  /\ UNCHANGED coreVars

\* exportRelic ends: catch, finally, return
Return ==
  /\ sketch.pc = "finally"
  /\ sketch' = Finally(sketch)
  /\ UNCHANGED coreVars

\* =============================================================== audio
\* Volumes are fixed-point numbers in millionths.  A fade timer is the
\* closure of one setInterval: its kind, the volumes it was started with,
\* its currentStep and whether clearInterval has stopped it.  The host
\* runs timer callbacks and promise continuations one at a time, in an
\* order and at a pace the program does not control.

\* const steps = 60
steps == 60

\* the target volumes of the fadeIn calls of a run: the default 0.7 and 0.5
TargetVolumes == {(7 * Scale) \div 10, Scale \div 2}

\* the fades a caller may request
FadeRequests ==
  {[op |-> "fadeOut", targetVolume |-> 0]}
    \cup {[op |-> "fadeIn", targetVolume |-> v] : v \in TargetVolumes}

\* the fades requested in one run, in order: one, or two that may overlap
FadeScripts ==
  {<<a>> : a \in FadeRequests} \cup {<<a, b>> : a, b \in FadeRequests}

\* new AudioManager(audioPath); script holds the calls yet to come, last
\* the latest fade requested, rejected the play() promises that failed
IdleAudio ==
  [isInitialized |-> FALSE, volume |-> 0, isPlaying |-> FALSE,
   timers |-> <<>>, pending |-> 0, rejected |-> 0, script |-> <<>>,
   last |-> <<>>]

\* init()
AudioInit(a) ==
  IF a.isInitialized THEN a
  ELSE [a EXCEPT !.isInitialized = TRUE, !.volume = (7 * Scale) \div 10]

\* play() up to its await: the promise of this.audio.play() is pending
Play(a) == [AudioInit(a) EXCEPT !.pending = @ + 1]

\* play() after its await: isPlaying is set when the promise is fulfilled,
\* the catch logs when it is rejected
PlaySettled(a, fulfilled) ==
  [a EXCEPT !.pending = @ - 1,
            !.isPlaying = IF fulfilled THEN TRUE ELSE @,
            !.rejected = @ + (IF fulfilled THEN 0 ELSE 1)]

\* pause()
Pause(a) ==
  IF a.isInitialized /\ a.isPlaying THEN [a EXCEPT !.isPlaying = FALSE]
  ELSE a

\* fadeOut(duration): returns at once unless playing, else starts a timer
FadeOut(a) ==
  IF ~a.isInitialized \/ ~a.isPlaying THEN a
  ELSE [a EXCEPT !.timers = Append(@,
          [kind |-> "fadeOut", startVolume |-> a.volume, targetVolume |-> 0,
           currentStep |-> 0, cleared |-> FALSE])]

\* fadeIn(duration, targetVolume): volume 0, play(), then starts a timer
FadeIn(a, targetVolume) ==
  IF ~a.isInitialized THEN a
  ELSE [Play([a EXCEPT !.volume = 0]) EXCEPT !.timers = Append(@,
          [kind |-> "fadeIn", startVolume |-> 0,
           targetVolume |-> targetVolume, currentStep |-> 0,
           cleared |-> FALSE])]

\* one run of the interval callback of fadeOut's timer i
FadeOutTick(a, i) ==
  LET currentStep == a.timers[i].currentStep + 1
      startVolume == a.timers[i].startVolume
      volumeStep == startVolume \div steps
      newVolume == startVolume - volumeStep * currentStep
  IN  IF currentStep >= steps \/ newVolume <= 0
        THEN Pause([a EXCEPT !.volume = 0,
                             !.timers[i].currentStep = currentStep,
                             !.timers[i].cleared = TRUE])
        ELSE [a EXCEPT !.volume = newVolume,
                       !.timers[i].currentStep = currentStep]

\* one run of the interval callback of fadeIn's timer i
FadeInTick(a, i) ==
  LET currentStep == a.timers[i].currentStep + 1
      targetVolume == a.timers[i].targetVolume
      volumeStep == targetVolume \div steps
      newVolume == volumeStep * currentStep
  IN  IF currentStep >= steps \/ newVolume >= targetVolume
        THEN [a EXCEPT !.volume = targetVolume,
                       !.timers[i].currentStep = currentStep,
                       !.timers[i].cleared = TRUE]
        ELSE [a EXCEPT !.volume = newVolume,
                       !.timers[i].currentStep = currentStep]

\* the variables the audio manager never touches
silentVars ==
  <<ctlVars, onStateChangeCallbacks, now, dts, delivered, host, session,
    edition, pool, sketch>>

\* the caller requests the next fade of the run
RequestFade ==
  /\ audio.script # <<>>
  /\ \E request \in {Head(audio.script)} :
       audio' = [(IF request.op = "fadeOut" THEN FadeOut(audio)
                  ELSE FadeIn(audio, request.targetVolume))
                   EXCEPT !.script = Tail(audio.script),
                          !.last = <<request>>]
  /\ UNCHANGED silentVars

\* the host runs the callback of a timer that is not cleared
TimerTick ==
  /\ \E i \in 1..Len(audio.timers) :
       /\ ~audio.timers[i].cleared
       /\ audio' = IF audio.timers[i].kind = "fadeOut"
                     THEN FadeOutTick(audio, i)
                     ELSE FadeInTick(audio, i)
  /\ UNCHANGED silentVars

\* the promise of a pending this.audio.play() is fulfilled or rejected and
\* play() resumes
PlaySettles ==
  /\ audio.pending > 0
  /\ \E fulfilled \in BOOLEAN : audio' = PlaySettled(audio, fulfilled)
  /\ UNCHANGED silentVars

\* ------------------------------------------------------------------ runs
\* a frame: p.draw calls ritualController.update(deltaTime)
Frame ==
  /\ \E dt \in dts : now < MaxCalls /\ update(dt)
  /\ UNCHANGED <<pool, sketch>>

\* p.setup and later callers register listeners
Register == \E cb \in Listeners : onStateChange(cb)

\* the sessions of a run that only follows the controller
InitSessions ==
  /\ host = [s \in Sessions |-> 0]
  /\ session = [s \in Sessions |-> FreshSession(0)]

\* no page load, no particle pool and no export in a run that does not
\* follow them
InitRest ==
  /\ edition = IdleEdition
  /\ pool = <<>>
  /\ sketch = IdleSketch
  /\ audio = IdleAudio

Init ==
  /\ InitController
  /\ now = 0
  /\ dts \in DtMenus
  /\ delivered = <<>>
  /\ InitSessions
  /\ InitRest

Next == Frame \/ Register

Spec == Init /\ [][Next]_vars

\* a run whose frames never stop coming and always carry a positive delta
LiveFrame ==
  /\ \E dt \in dts : now < MaxLiveCalls /\ update(dt)
  /\ UNCHANGED <<pool, sketch>>

InitLive ==
  /\ InitController
  /\ now = 0
  /\ dts \in LiveDtMenus
  /\ delivered = <<>>
  /\ InitSessions
  /\ InitRest

NextLive == LiveFrame \/ Register

LiveSpec == InitLive /\ [][NextLive]_vars /\ WF_vars(LiveFrame)

\* two page loads, each seeded by its own seed manager, run p.setup side by
\* side; the host's unseeded randomness differs freely between them
InitSetup ==
  /\ InitController
  /\ now = 0
  /\ dts = {0}
  /\ delivered = <<>>
  /\ host \in [Sessions -> Ambient]
  /\ session \in [Sessions -> {FreshSession(seed) : seed \in Seeds}]
  /\ InitRest

NextSetup == \E s \in Sessions : SetupStep(s)

SetupSpec == InitSetup /\ [][NextSetup]_vars

\* a controller that is constructed and never updated
InitStill ==
  /\ InitController
  /\ now = 0
  /\ dts = {0}
  /\ delivered = <<>>
  /\ InitSessions

\* what localStorage may hold for the visitor token when the page loads:
\* nothing, or any string
Stores == {<<>>} \cup {<<token>> : token \in Strings(MaxTokenLen)}

\* page loads on one store with one master seed
InitEdition ==
  /\ InitStill
  /\ edition \in {[IdleEdition EXCEPT !.store = store, !.masterSeed = masterSeed] :
                     store \in Stores, masterSeed \in Strings(MaxSeedLen)}
  /\ pool = <<>>
  /\ sketch = IdleSketch
  /\ audio = IdleAudio

NextEdition == NewEditionManager

EditionSpec == InitEdition /\ [][NextEdition]_vars

\* page loads on a storage that may throw
NextStorage == SetupEditionManager

StorageSpec == InitEdition /\ [][NextStorage]_vars

\* calls of seedFromString on one string
InitHash ==
  /\ InitStill
  /\ edition \in {[IdleEdition EXCEPT !.identity = str] :
                     str \in Strings(MaxIdentityLen)}
  /\ pool = <<>>
  /\ sketch = IdleSketch
  /\ audio = IdleAudio

NextHash == SeedFromStringCall

HashSpec == InitHash /\ [][NextHash]_vars

\* the frames of a sketch whose particle system was set up from a seed
InitDraw ==
  /\ InitController
  /\ now = 0
  /\ dts \in DrawDtMenus
  /\ delivered = <<>>
  /\ host \in [Sessions -> Ambient]
  /\ \E seed \in Seeds :
       /\ session = [s \in Sessions |->
                       IF s = 1 THEN RunSetup(P5(1), FreshSession(seed))
                       ELSE FreshSession(0)]
       /\ pool = SetupPool(P5(1), seed)
  /\ edition = IdleEdition
  /\ sketch = IdleSketch
  /\ audio = IdleAudio

NextDraw == Draw

DrawSpec == InitDraw /\ [][NextDraw]_vars

\* the sketch in p.setup: the edition is computed on an empty store and the
\* systems are built from a seed; the listener is yet to be registered
InitSketch ==
  /\ InitController
  /\ now = 0
  /\ dts \in SketchDtMenus
  /\ delivered = <<>>
  /\ host = [s \in Sessions |-> 0]
  /\ \E seed \in Seeds :
       /\ session = [s \in Sessions |->
                       IF s = 1 THEN RunSetup(P5(1), FreshSession(seed))
                       ELSE FreshSession(0)]
       /\ pool = SetupPool(P5(1), seed)
  /\ edition = Loaded(IdleEdition, 0)
  /\ sketch = IdleSketch
  /\ audio = IdleAudio

\* the frames of sketches set up from seeds that between them give every
\* grid size
InitRender ==
  /\ InitController
  /\ now = 0
  /\ dts \in SketchDtMenus
  /\ delivered = <<>>
  /\ host = [s \in Sessions |-> 0]
  /\ \E seed \in RenderSeeds :
       /\ session = [s \in Sessions |->
                       IF s = 1 THEN RunSetup(P5(1), FreshSession(seed))
                       ELSE FreshSession(0)]
       /\ pool = SetupPool(P5(1), seed)
  /\ edition = IdleEdition
  /\ sketch = IdleSketch
  /\ audio = IdleAudio

NextRender == SetupListener \/ SketchFrame

RenderSpec == InitRender /\ [][NextRender]_vars

\* an audio manager that is initialised, playing or not, and the fades a
\* run requests of it; a run that begins with fadeOut begins playing
InitAudio ==
  /\ InitStill
  /\ edition = IdleEdition
  /\ pool = <<>>
  /\ sketch = IdleSketch
  /\ \E script \in FadeScripts :
       \E started \in {AudioInit(IdleAudio),
                        PlaySettled(Play(IdleAudio), TRUE)} :
         /\ script[1].op = "fadeOut" => started.isPlaying
         /\ audio = [started EXCEPT !.script = script]

NextAudio == RequestFade \/ TimerTick \/ PlaySettles

AudioSpec == InitAudio /\ [][NextAudio]_vars

NextSketch ==
  SetupListener \/ SketchFrame \/ ClickDownload \/ CreateGraphics \/ RenderCallback \/ Save
    \/ Return

SketchSpec == InitSketch /\ [][NextSketch]_vars

\* ------------------------------------------------------- the properties
\* a step is a call of update exactly when the wall clock advances
IsUpdateStep == now' # now

\* the time accumulated in the current state by the update of this step
Accumulated == timeInState + (globalTime' - globalTime)

\* the sum of the nine non-terminal durations, 36.8 s
SumOfDurations == DurationSum(0, 0, 0, 0, 0)[2]

\* C1: from a fresh controller the states are entered in the declared order:
\* one update never moves the state index backward nor forward by more than
\* one, whatever its deltaTime, and the state name is always the name at the
\* index, so no state is skipped or entered twice.
C1_ForwardOneAtATime ==
  /\ currentStateIndex = 0 /\ currentStateName = "BOOT"
  /\ [][/\ currentStateIndex' \in {currentStateIndex, currentStateIndex + 1}
        /\ currentStateName' = SeqAt(currentStateIndex')]_vars

\* C1 witness: one update whose deltaTime (40 s) is longer than the whole
\* ritual has been made, and the controller is in TITLE.
C1_Witness ==
  /\ now = 1
  /\ globalTime = 400
  /\ currentStateIndex = 1
  /\ currentStateName = "TITLE"

\* C2: at the moment RELIC is entered (the update that stamps the completion)
\* the total elapsed time globalTime equals the sum of the nine non-terminal
\* durations, whatever the size of the deltaTime values.
C2_RelicEnteredAtSumOfDurations ==
  completionTimestamp = <<now>> => globalTime = SumOfDurations

\* C3: with frames that keep coming and carry a positive deltaTime the
\* controller eventually enters RELIC, and once in RELIC no step leaves it,
\* changes the state index or notifies a listener.
C3_EventuallyRelicForever ==
  /\ <>(currentStateName = "RELIC")
  /\ [][currentStateName = "RELIC" =>
          /\ currentStateName' = "RELIC"
          /\ currentStateIndex' = currentStateIndex
          /\ (IsUpdateStep => delivered' = <<>>)]_vars

\* C3 witness: the controller is in RELIC, a listener is registered, and
\* updates have been made after the one that entered RELIC.
C3_Witness ==
  /\ currentStateName = "RELIC"
  /\ Len(onStateChangeCallbacks) > 0
  /\ completionTimestamp # <<>>
  /\ now > completionTimestamp[1] + 1
  /\ delivered = <<>>

\* C4: the global progress observed after successive updates never
\* decreases, always lies in [0, 1], and is exactly 1 whenever the
\* controller is in RELIC.
C4_GlobalProgressMonotone ==
  /\ getGlobalProgress = <<0, SumOfDurations>>
  /\ [][\A before \in {getGlobalProgress} :
        \A after \in {GlobalProgress(currentStateName', currentStateIndex',
                                     timeInState')} :
          /\ before[1] * after[2] <= after[1] * before[2]
          /\ 0 <= after[1]
          /\ after[1] <= after[2]
          /\ 0 < after[2]
          /\ (currentStateName' = "RELIC" <=> after[1] = after[2])]_vars

\* C4 witness: an update overshot the end of BOOT (deltaTime 1 s against
\* 0.8 s) and the progress reported in TITLE is exactly BOOT's share.
C4_Witness ==
  /\ currentStateName = "TITLE"
  /\ now = 1
  /\ globalTime = 10
  /\ getGlobalProgress = <<8, SumOfDurations>>

\* C5: the completion timestamp is null exactly while RELIC has not been
\* entered, the update that enters RELIC sets it to the instant of that
\* update, and no later step changes it.
C5_TimestampSetOnce ==
  /\ [](completionTimestamp = <<>> <=> currentStateName # "RELIC")
  /\ [][/\ (currentStateName # "RELIC" /\ currentStateName' = "RELIC")
             => completionTimestamp' = <<now'>>
        /\ completionTimestamp # <<>>
             => completionTimestamp' = completionTimestamp]_vars

\* C5 witness: an update has been made since the completion timestamp was
\* taken, and it still holds the instant of the entry into RELIC.
C5_Witness ==
  /\ completionTimestamp # <<>>
  /\ now = completionTimestamp[1] + 1

\* C6: an update that brings the accumulated time of a non-terminal state to
\* its duration or beyond transitions within the same call and leaves
\* getTimeInState() at 0; an update that leaves it strictly below causes no
\* transition and stores the accumulated time.
C6_TransitionAtBoundary ==
  [][IsUpdateStep =>
       LET duration == STATES[currentStateName].duration
       IN  /\ (duration # Infinity /\ Accumulated >= duration)
                => /\ currentStateIndex' = currentStateIndex + 1
                   /\ getTimeInState' = 0
           /\ (duration # Infinity /\ Accumulated < duration)
                => /\ currentStateIndex' = currentStateIndex
                   /\ getTimeInState' = Accumulated]_vars

\* C6 witness: two updates of 0.4 s reached BOOT's 0.8 s exactly and the
\* controller is in TITLE with no time accumulated.
C6_Witness ==
  /\ now = 2
  /\ globalTime = STATES["BOOT"].duration
  /\ currentStateName = "TITLE"
  /\ timeInState = 0

\* C7: an update that transitions calls every registered listener once, in
\* registration order, with the name of the state just entered, before it
\* returns; an update that does not transition calls none.
C7_NotifyInOrder ==
  [][IsUpdateStep =>
       IF currentStateIndex' # currentStateIndex
         THEN /\ Len(delivered') = Len(onStateChangeCallbacks)
              /\ \A i \in 1..Len(delivered') :
                   /\ delivered'[i].listener = onStateChangeCallbacks[i]
                   /\ delivered'[i].stateName = currentStateName'
                   /\ delivered'[i].stateName = SeqAt(currentStateIndex + 1)
         ELSE delivered' = <<>>]_vars

\* C7 witness: the latest update called two different listeners, the second
\* registered one after the first.
C7_Witness ==
  /\ Len(delivered) = 2
  /\ delivered[1].listener # delivered[2].listener
  /\ delivered[1].listener = onStateChangeCallbacks[1]
  /\ delivered[2].stateName = currentStateName

\* C8: every update moves every channel to value + (target - value) * 0.05
\* (to the nearest unit), where target is the target of the state current
\* when the update returns; deltaTime does not enter the new value; and no
\* other step changes a channel.
C8_BlendTowardTarget ==
  [][IF IsUpdateStep
       THEN \A key \in Channels :
              LET target == STATES[currentStateName'].targets[key]
              IN  Abs(100 * (params'[key] - params[key])
                      - smoothing * (target - params[key])) <= 50
       ELSE params' = params]_vars

\* C8 witness: the first update entered TITLE and particleEnergy has moved
\* 5 % of the way from 0 to TITLE's target 0.1.
C8_Witness ==
  /\ now = 1
  /\ currentStateName = "TITLE"
  /\ params.particleEnergy = 5000
  /\ params.weatheringAmount = 2500

\* the distance of every channel from the target of the current state is at
\* most e
WithinOfTarget(e) ==
  \A key \in Channels :
    Abs(params[key] - STATES[currentStateName].targets[key]) <= e

C10_SameSeedSameDescriptors ==
  \A a \in Sessions : \A b \in Sessions :
    session[a].seed = session[b].seed =>
      /\ \A k \in 1..Len(SetupOrder) :
           (session[a].built >= k /\ session[b].built >= k)
             => session[a].systems[k] = session[b].systems[k]
      /\ session[a].built = session[b].built
           => session[a].rng = session[b].rng

\* C10 witness: two sessions with the same seed and different unseeded host
\* randomness have both constructed all four systems, particles included.
C10_Witness ==
  /\ session[1].seed = session[2].seed
  /\ host[1] # host[2]
  /\ session[1].built = Len(SetupOrder)
  /\ session[2].built = Len(SetupOrder)
  /\ Len(session[1].systems[3].particles) = maxParticles
  /\ Len(session[2].systems[1].circleSets) >= 2

\* the string whose rolling hash is -2^31 before Math.abs
MinHashString == <<2322, 100, 90, 72, 64>>

\* C11: every edition number an EditionManager computes, whatever the
\* visitor token and the master seed, is an integer from 1 to 100; so it is
\* when the rolling hash of token + seed is -2^31 before Math.abs.
C11_EditionInRange ==
  \A k \in 1..Len(edition.loads) :
    /\ edition.loads[k].editionNumber \in 1..cap
    /\ edition.loads[k].editionNumber
         = ComputeEdition(edition.loads[k].visitorToken, edition.masterSeed)

\* C11 witness: a manager was built on a stored token for which token +
\* seed hashes to -2^31 before Math.abs, 2^31 after it.
C11_Witness ==
  /\ Len(edition.loads) >= 1
  /\ edition.loads[1].visitorToken \o edition.masterSeed = MinHashString
  /\ HashLoop(MinHashString, 0, Num(0)) = <<-(Half \div 2), 0>>
  /\ edition.loads[1].hash = <<Half \div 2, 0>>
  /\ edition.loads[1].editionNumber = 49

\* C12: on a store that keeps its contents every construction after the
\* first reads the token the first one returned, writes nothing and gives
\* the same edition number and label; the token is written at most once, and
\* only by a first construction that found none.
C12_TokenWrittenOnce ==
  /\ edition.writes <= 1
  /\ \A k \in 1..Len(edition.loads) :
       /\ edition.store = <<edition.loads[k].visitorToken>>
       /\ k > 1 =>
            /\ ~edition.loads[k].wrote
            /\ edition.loads[k].visitorToken = edition.loads[1].visitorToken
            /\ edition.loads[k].editionNumber = edition.loads[1].editionNumber
            /\ edition.loads[k].editionLabel = edition.loads[1].editionLabel

\* C12 witness: the first construction found no token, generated and wrote
\* one, and a second construction has run on the same store.
C12_Witness ==
  /\ Len(edition.loads) = 2
  /\ edition.loads[1].wrote
  /\ edition.writes = 1
  /\ Len(edition.loads[1].visitorToken) = Len(UuidTemplate)

\* C13: seedFromString returns, for every string, the empty one included, a
\* non-negative integer below 2^32, and the same one on every call with the
\* same string.
C13_HashTotalDeterministic ==
  \A k \in 1..Len(edition.seeds) :
    /\ edition.seeds[k][1] \in 0..(Half - 1)
    /\ edition.seeds[k][2] \in 0..(Half - 1)
    /\ edition.seeds[k] = edition.seeds[1]

\* C13 witness: a string whose rolling hash is negative before Math.abs was
\* hashed twice.
C13_Witness ==
  /\ Len(edition.seeds) = 2
  /\ HashLoop(edition.identity, 0, Num(0))[1] < 0
  /\ Len(edition.identity) = MaxIdentityLen

\* the particles of the pool that report active == true
ActiveParticles == {i \in 1..Len(pool) : pool[i].active}

\* C14: after every update of the particle system the number of active
\* particles is floor(particleEnergy * 120) for the particleEnergy the
\* controller supplied to that update.
C14_ActiveCountIsFloor ==
  now > 0 => Cardinality(ActiveParticles) = ActiveCount(params.particleEnergy)

\* C15: the pool always holds 120 particles, and an update changes nothing
\* of a particle that is inactive in it but its active flag, which is false
\* after it.
C15_InactiveUntouched ==
  /\ [](Len(pool) = maxParticles)
  /\ [][\A i \in 1..Len(pool) :
          i - 1 >= ActiveCount(params'.particleEnergy)
            => /\ ~pool'[i].active
               /\ pool'[i] = [pool[i] EXCEPT !.active = FALSE]]_vars

\* C15 witness: a particle that was active and has a trail is inactive after
\* a later update, with its trail kept.
C15_Witness ==
  /\ now > 0
  /\ \E i \in 1..Len(pool) : ~pool[i].active /\ Len(pool[i].path) > 0
  /\ Len(pool) = maxParticles

\* C16: a trail never holds more than 5 positions; an update in which the
\* particle is active appends its new position and, when that makes 6,
\* drops the oldest; an update in which it is inactive leaves the trail.
C16_TrailBoundedFifo ==
  /\ [](\A i \in 1..Len(pool) : Len(pool[i].path) <= 5)
  /\ [][now' # now =>
         \A i \in 1..Len(pool) :
           \A pushed \in {Append(pool[i].path,
                                 [x |-> pool'[i].x, y |-> pool'[i].y])} :
             IF pool'[i].active
               THEN pool'[i].path =
                      SubSeq(pushed, IF Len(pushed) > 5 THEN Len(pushed) - 4 ELSE 1,
                             Len(pushed))
               ELSE pool'[i].path = pool[i].path]_vars

\* C16 witness: the first particle has been active in more than 5 updates,
\* so its trail is full and has dropped positions.
C16_Witness ==
  /\ now > 12
  /\ Len(pool) = maxParticles
  /\ pool[1].active
  /\ Len(pool[1].path) = 5
  /\ pool[1].path[1] # pool[1].path[5]

\* C17: a failed export is reported to the caller of exportRelic: what the
\* caller gets back from a call that failed differs from what it gets back
\* from a call that completed.
C17_FailureReported ==
  \A a \in 1..Len(sketch.calls) : \A b \in 1..Len(sketch.calls) :
    (sketch.calls[a].failed /\ ~sketch.calls[b].failed)
      => sketch.calls[a].reported # sketch.calls[b].reported

\* a step of an export: the position inside exportRelic changes
IsExportStep == sketch'.pc # sketch.pc

\* C18: isExporting is true exactly while a call of exportRelic is in
\* progress, so it is false after every return, failed or not; no step of
\* an export changes the controller, the parameter vector, the descriptor
\* sets, the particles or the edition; and every click made after a return
\* begins a full export.
C18_ExportLeavesCoreUntouched ==
  /\ [](sketch.isExporting <=> sketch.pc # "idle")
  /\ [][IsExportStep => UNCHANGED coreVars]_vars
  /\ [][(Len(sketch'.calls) = Len(sketch.calls) + 1)
          => /\ ~sketch'.isExporting
             /\ ~sketch'.calls[Len(sketch'.calls)].skipped]_vars
  /\ [][(sketch.pc = "idle" /\ sketch'.call # sketch.call)
          => sketch'.pc = "createGraphics"]_vars

\* C18 witness: an export threw and returned, and the next export saved a
\* file, with the controller in RELIC and the descriptors in place.
C18_Witness ==
  /\ Len(sketch.calls) = 2
  /\ sketch.calls[1].failed
  /\ ~sketch.calls[2].failed
  /\ Len(sketch.saved) = 1
  /\ ~sketch.isExporting
  /\ currentStateName = "RELIC"
  /\ Len(session[1].systems) = Len(SetupOrder)

\* C19: the params of every export have the motion, noise and glitch
\* channels at zero, cameraZoom at 1, and the completion channels at 1.0.
C19_ExportSnapshotFrozen ==
  sketch.pc # "idle" =>
    /\ sketch.call.params.cameraTiltX = 0
    /\ sketch.call.params.cameraTiltY = 0
    /\ sketch.call.params.cameraZoom = Scale
    /\ sketch.call.params.zLiftStrength = 0
    /\ sketch.call.params.noiseAmp = 0
    /\ sketch.call.params.glitchRate = 0
    /\ sketch.call.params.particleEnergy = 0
    /\ sketch.call.params.geometryCompletion = Scale
    /\ sketch.call.params.gridVisibility = Scale

\* C20: once the ritual is complete, the instant behind the timestamp of
\* the UI label and of every export is the controller's completion
\* timestamp.
C20_TimestampIsCompletion ==
  ritualComplete =>
    /\ sketch.ritualTimestamp = completionTimestamp
    /\ sketch.timestampLabel = <<formatTimestamp(completionTimestamp[1])>>
    /\ sketch.pc # "idle"
         => sketch.call.timestamp = <<formatTimestamp(completionTimestamp[1])>>
    /\ \A k \in 1..Len(sketch.saved) :
         sketch.saved[k].image.timestamp
           = <<formatTimestamp(completionTimestamp[1])>>

\* C21: when reading or writing the visitor token throws, the construction
\* still completes and gives an edition number from 1 to 100 and its label.
C21_StoreFailureSwallowed ==
  \A k \in 1..Len(edition.attempts) :
    /\ edition.attempts[k].completed
    /\ edition.attempts[k].editionNumber \in 1..cap
    /\ edition.attempts[k].editionLabel
         = FormatEditionLabel(edition.attempts[k].editionNumber)

\* C22: the state name the draw loop hands to the weathering layer is the
\* controller's current state, so a frame drawn with weatheringAmount > 0
\* has the pixelation overlay exactly in REASSEMBLE, CONSECRATE_2D and
\* RELIC.
C22_PixelationFollowsState ==
  sketch.scene # <<>> =>
    /\ sketch.scene.weathering.ritualStateName = currentStateName
    /\ sketch.scene.weathering.pixelation
         = (currentStateName \in pixelationStates
              /\ params.weatheringAmount > 0)

\* the lines of an axis that are classified as inner
InnerLines(lines) == {k \in DOMAIN lines : lines[k].isInner}

\* the grid sizes of the sketches of a run, one per seed
GridSizes ==
  {RunSetup(P5(1), FreshSession(seed)).systems[2].gridSize :
     seed \in RenderSeeds}

\* C23: for every grid size from 16 to 23, the lines of each axis drawn
\* with the inner colour are the innermost 30% of the gridSize + 1 lines by
\* distance from the centre (their number is 30% of the lines, rounded down
\* or up), and every other line is drawn with the outer colour.
C23_InnerIsInnermostThirtyPercent ==
  (sketch.scene # <<>> /\ sketch.scene.grid.drawn) =>
    \A lines \in {sketch.scene.grid.vertical, sketch.scene.grid.horizontal} :
      LET gridSize == session[1].systems[2].gridSize
          inner == InnerLines(lines)
      IN  /\ GridSizes = 16..23
          /\ gridSize \in GridSizes
          /\ Len(lines) = gridSize + 1
          /\ 10 * Cardinality(inner) <= 3 * Len(lines) + 9
          /\ 10 * Cardinality(inner) >= 3 * Len(lines) - 9
          /\ \A a \in inner, b \in DOMAIN lines \ inner :
               Abs(2 * (a - 1) - gridSize) < Abs(2 * (b - 1) - gridSize)
          /\ \A k \in DOMAIN lines :
               lines[k].colorIndex
                 = IF k \in inner THEN session[1].systems[2].innerGridColor
                   ELSE session[1].systems[2].outerGridColor

\* C24: in every frame the guides are drawn only if geometryCompletion c is
\* above 0.05, the spirals only if c > 0.1 and the circles only if c > 0.2;
\* the number of circles shown in a set is ceil(clamp((c - 0.2) / 0.8, 0, 1)
\* * circleCount), at least 1 and at most circleCount; the guides and the
\* spiral points shown never exceed the lengths of their lists.
C24_GeometryThresholds ==
  sketch.scene # <<>> =>
    LET shown == sketch.scene.geometry
        system == session[1].systems[1]
        c == params.geometryCompletion
    IN  /\ shown.completion = c
        /\ shown.guides.drawn => 100 * c > 5 * Scale
        /\ shown.spirals.drawn => 10 * c > Scale
        /\ shown.circles.drawn => 10 * c > 2 * Scale
        /\ shown.circles.drawn =>
             \A setIdx \in 1..Len(system.circleSets) :
               LET circleCount == Len(system.circleSets[setIdx].circles)
                   n == shown.circles.shown.shown[setIdx]
                   scaled == (IF c > Scale THEN Scale - (2 * Scale) \div 10
                              ELSE c - (2 * Scale) \div 10) * circleCount
               IN  /\ n * ((8 * Scale) \div 10) >= scaled
                   /\ (n - 1) * ((8 * Scale) \div 10) < scaled
                   /\ n >= 1
                   /\ n <= circleCount
        /\ shown.guides.shown <= Len(system.radialGuides)
        /\ \A s \in 1..Len(system.spirals) :
             shown.spirals.shown[s] <= Len(system.spirals[s].points)

\* C24 witness: a frame drew guides, spirals and circles, with a circle set
\* shown in part (more than one circle, fewer than all).
C24_Witness ==
  /\ sketch.scene # <<>>
  /\ sketch.scene.geometry.guides.drawn
  /\ sketch.scene.geometry.spirals.drawn
  /\ sketch.scene.geometry.circles.drawn
  /\ \E setIdx \in 1..Len(session[1].systems[1].circleSets) :
       /\ sketch.scene.geometry.circles.shown.shown[setIdx] > 1
       /\ sketch.scene.geometry.circles.shown.shown[setIdx]
            < Len(session[1].systems[1].circleSets[setIdx].circles)

\* C25: after every update call that returns with the controller in a
\* non-terminal state, 0 <= timeInState < duration of the current state, so
\* getStateProgress() is in [0, 1); the time by which a call overshoots a
\* state's end is discarded: the state entered starts at timeInState 0.
C25_TimeInStateBelowDuration ==
  /\ [](currentStateName # "RELIC" =>
          /\ 0 <= timeInState
          /\ timeInState < STATES[currentStateName].duration
          /\ 0 <= getStateProgress[1]
          /\ getStateProgress[1] < getStateProgress[2])
  /\ [][(IsUpdateStep /\ currentStateIndex' # currentStateIndex)
          => timeInState' = 0]_vars

\* C25 witness: an update overshot BOOT's end (0.8 s) by more than TITLE
\* lasts and returned in TITLE with no time accumulated.
C25_Witness ==
  /\ currentStateName = "TITLE"
  /\ timeInState = 0
  /\ globalTime > STATES["BOOT"].duration + STATES["TITLE"].duration

\* the three faces of completion agree in what a caller reads
CompletionAgrees(name, complete, timestamp) ==
  /\ (name = "RELIC") = complete
  /\ complete = (timestamp # <<>>)

\* C26: in every state a caller can observe, a listener inside its call
\* included, getStateName() = 'RELIC', isComplete() and a non-null
\* getCompletionTimestamp() are equivalent; currentStateName is
\* STATE_SEQUENCE[currentStateIndex] and targets are that state's targets.
C26_CompletionFactsAgree ==
  /\ CompletionAgrees(getStateName, isComplete, getCompletionTimestamp)
  /\ currentStateName = SeqAt(currentStateIndex)
  /\ targets = STATES[currentStateName].targets
  /\ \A i \in 1..Len(delivered) :
       /\ CompletionAgrees(delivered[i].seen.stateName,
                           delivered[i].seen.isComplete,
                           delivered[i].seen.completionTimestamp)
       /\ delivered[i].stateName = delivered[i].seen.stateName
       /\ delivered[i].seen.stateName = SeqAt(delivered[i].seen.stateIndex)
       /\ delivered[i].seen.targets
            = STATES[delivered[i].seen.stateName].targets

\* C26 witness: two listeners were notified of RELIC and read the flag and
\* the timestamp inside their calls.
C26_Witness ==
  /\ Len(delivered) = 2
  /\ delivered[1].stateName = "RELIC"
  /\ delivered[2].seen.isComplete
  /\ delivered[2].seen.completionTimestamp = <<now>>

\* the values a channel has been sent toward so far: its initial value and
\* its targets in the states entered
Aimed(key) ==
  {Vec(0, 0, Scale, 0, 0, 0, 0, 0, 0, 0)[key]}
    \cup {STATES[SeqAt(i)].targets[key] : i \in 0..currentStateIndex}

\* the range of each channel over the whole ritual, in millionths
ChannelRange ==
  [cameraTiltX        |-> <<0, 500000>>,
   cameraTiltY        |-> <<0, 400000>>,
   cameraZoom         |-> <<550000, 1000000>>,
   zLiftStrength      |-> <<0, 1000000>>,
   noiseAmp           |-> <<0, 300000>>,
   glitchRate         |-> <<0, 400000>>,
   geometryCompletion |-> <<0, 1000000>>,
   gridVisibility     |-> <<0, 1000000>>,
   particleEnergy     |-> <<0, 1200000>>,
   weatheringAmount   |-> <<0, 600000>>]

\* C27: after any sequence of update calls every channel lies between the
\* least and the greatest of its initial value and its targets in the
\* states entered so far, hence in its range over the ritual, and
\* geometryCompletion never decreases from one call to the next.
C27_NoOvershoot ==
  /\ [](\A key \in DOMAIN params :
          /\ \E low \in Aimed(key) : low <= params[key]
          /\ \E high \in Aimed(key) : params[key] <= high
          /\ ChannelRange[key][1] <= params[key]
          /\ params[key] <= ChannelRange[key][2])
  /\ [][params'.geometryCompletion >= params.geometryCompletion]_vars

\* C27 witness: particleEnergy rose above every target before
\* DESTABILIZE's 1.2 and is on its way down in REASSEMBLE, whose target is
\* 0.6.
C27_Witness ==
  /\ currentStateName = "REASSEMBLE"
  /\ params.particleEnergy > (9 * Scale) \div 10
  /\ targets.particleEnergy < params.particleEnergy

\* C28: every call of handleExport / exportRelic is made with the ritual
\* complete: the download button has its click handler only from the RELIC
\* notification on, so at every click, and through every step of an
\* export, the controller is in RELIC with isComplete() true.
C28_ExportOnlyAfterRelic ==
  /\ []((sketch.downloadShown \/ sketch.pc # "idle" \/ sketch.calls # <<>>)
          => (isComplete /\ getStateName = "RELIC"
                /\ getCompletionTimestamp # <<>>))
  /\ [][(IsExportStep \/ sketch'.calls # sketch.calls)
          => (isComplete /\ currentStateIndex = Len(STATE_SEQUENCE) - 1)]_vars

\* C28 witness: a click started an export in the very frame interval in
\* which RELIC was entered, and an earlier frame had put the timestamp on
\* screen with the button still without a handler.
C28_Witness ==
  /\ sketch.pc = "createGraphics"
  /\ sketch.calls = <<>>
  /\ isComplete
  /\ completionTimestamp = <<now>>
  /\ sketch.ritualTimestamp # completionTimestamp

\* C29: every offscreen buffer exportRelic creates is released before
\* exportRelic returns, whether the export succeeds, the render callback
\* throws or the save throws; a call made while an export is in progress
\* creates no buffer and saves nothing.
C29_BufferReleased ==
  /\ sketch.pc = "idle" => sketch.removed = sketch.created
  /\ \A k \in 1..Len(sketch.calls) :
       sketch.calls[k].skipped => ~sketch.calls[k].failed

\* no fade is left to request, no timer is running and no play() is pending
Quiet ==
  /\ audio.script = <<>>
  /\ audio.pending = 0
  /\ \A i \in 1..Len(audio.timers) : audio.timers[i].cleared

\* C30: every fade timer stops itself after at most 60 ticks, and once all
\* timers have stopped (every play() having been fulfilled) the fade
\* requested last decides the end state: playing at volume v after
\* fadeIn(d, v), paused at volume 0 after fadeOut(d).
C30_LastFadeDecides ==
  /\ \A i \in 1..Len(audio.timers) :
       /\ audio.timers[i].currentStep <= steps
       /\ audio.timers[i].currentStep = steps => audio.timers[i].cleared
  /\ (Quiet /\ audio.last # <<>> /\ audio.rejected = 0) =>
       IF audio.last[1].op = "fadeIn"
         THEN audio.isPlaying /\ audio.volume = audio.last[1].targetVolume
         ELSE ~audio.isPlaying /\ audio.volume = 0

=============================================================================
